---------------------------- MODULE Spec2Model ----------------------------
(***************************************************************************)
(* Model of update_manifest.py: the scan of the content tree, the folder   *)
(* structure build, and main()'s load / update / save / report sequence.   *)
(*                                                                         *)
(* Representation                                                          *)
(*   string        a sequence of one-character strings                     *)
(*   path          a sequence of names (strings), relative to the root     *)
(*   mapping       a Python dict, kept in insertion order: a sequence of   *)
(*                 <<key, child mapping>> pairs                            *)
(*   manifest      [kind, keys, val]: kind "dict" with its keys in         *)
(*                 insertion order and their values, or kind "nondict"     *)
(*                 for a JSON document that is not an object               *)
(*   manifest file [kind, value]: "absent", "corrupt" (does not parse) or  *)
(*                 "json" holding the parsed value                         *)
(*                                                                         *)
(* Assumptions: every entry of the tree is a regular file or a real,       *)
(* readable directory (no symlinks, no special files); the tree does not   *)
(* change while a run is in progress.                                      *)
(***************************************************************************)
EXTENDS Integers, Sequences, FiniteSets, TLC

\* ------------------------------------------------------------------------
\* Bounds of the model
\* ------------------------------------------------------------------------

\* Entries (directories and data files) of a content tree, manifest aside.
MaxEntries == 3
\* Runs of main() in one behaviour.
MaxRuns == 2
\* Length of each input list handed to build_folder_structure in SpecBuild.
MaxLen == 2

\* ------------------------------------------------------------------------
\* Python strings
\* ------------------------------------------------------------------------

\* The characters in use, in code point order ('.' 46, '/' 47, '\' 92,
\* then the lower-case letters).
CodePoints ==
    << ".", "/", "\\", "a", "b", "c", "d", "e", "f", "g", "h", "i", "j",
       "k", "l", "m", "n", "o", "p", "q", "r", "s", "t", "u", "v", "w", "x",
       "y", "z" >>

Ord(c) == CHOOSE i \in 1..Len(CodePoints) : CodePoints[i] = c

\* s < t for Python str: the first differing character decides, a proper
\* prefix is smaller.
StrLess(s, t) ==
    \E i \in 1..(Len(s) + 1) :
        /\ \A j \in 1..(i - 1) : j <= Len(t) /\ s[j] = t[j]
        /\ \/ i = Len(s) + 1 /\ i <= Len(t)
           \/ i <= Len(s) /\ i <= Len(t) /\ Ord(s[i]) < Ord(t[i])

StrLeq(s, t) == s = t \/ StrLess(s, t)

\* str.endswith
endswith(s, suffix) ==
    /\ Len(s) >= Len(suffix)
    /\ SubSeq(s, Len(s) - Len(suffix) + 1, Len(s)) = suffix

\* str.replace(old, new) for single characters
replace(s, old, new) ==
    [i \in 1..Len(s) |-> IF s[i] = old THEN new ELSE s[i]]

\* str.split(sep): always at least one part, empty parts kept
RECURSIVE split(_, _)
split(s, sep) ==
    IF \A i \in 1..Len(s) : s[i] # sep
    THEN << s >>
    ELSE LET i == CHOOSE k \in 1..Len(s) :
                      s[k] = sep /\ \A j \in 1..(k - 1) : s[j] # sep
         IN  << SubSeq(s, 1, i - 1) >> \o split(SubSeq(s, i + 1, Len(s)), sep)

\* sep.join(parts)
RECURSIVE join(_, _)
join(parts, sep) ==
    IF Len(parts) = 0 THEN << >>
    ELSE IF Len(parts) = 1 THEN parts[1]
    ELSE parts[1] \o << sep >> \o join(Tail(parts), sep)

\* sorted(list) for a list of str: a stable insertion sort.
InsertSorted(sortedSeq, x) ==
    LET k == Cardinality({i \in 1..Len(sortedSeq) : StrLeq(sortedSeq[i], x)})
    IN  SubSeq(sortedSeq, 1, k) \o << x >> \o SubSeq(sortedSeq, k + 1, Len(sortedSeq))

RECURSIVE sorted(_)
sorted(list) ==
    IF Len(list) = 0 THEN << >>
    ELSE InsertSorted(sorted(SubSeq(list, 1, Len(list) - 1)), list[Len(list)])

\* The elements of a set in some order (the order os.walk and set iteration
\* produce is not specified; every use below sorts the result).
RECURSIVE SetToSeq(_)
SetToSeq(S) ==
    IF S = {} THEN << >>
    ELSE LET x == CHOOSE y \in S : TRUE
         IN  << x >> \o SetToSeq(S \ {x})

Range(seq) == {seq[i] : i \in 1..Len(seq)}

\* ------------------------------------------------------------------------
\* Names used by the content trees of the model
\* ------------------------------------------------------------------------

DotJson == << ".", "j", "s", "o", "n" >>
ManifestName == << "m", "a", "n", "i", "f", "e", "s", "t" >> \o DotJson

n_a == << "a" >>
n_s == << "s" >>
n_g == << "g" >>
n_a_bs_s == << "a", "\\", "s" >>
n_a_json == << "a" >> \o DotJson
n_b_json == << "b" >> \o DotJson
n_c_json == << "c" >> \o DotJson
n_a_bs_b_json == << "a", "\\", "b" >> \o DotJson
n_n_txt == << "n", ".", "t", "x", "t" >>

\* ------------------------------------------------------------------------
\* State
\* ------------------------------------------------------------------------

VARIABLES
    os_sep,          \* the platform's path separator: "/" or "\\"
    rootExists,      \* CONTENT_DIR.exists()
    dirs,            \* the directories under the root (paths)
    files,           \* the files under the root (paths), manifest aside
    mfile,           \* the file at MANIFEST_PATH
    today,           \* str(date.today())
    disk,            \* what opening MANIFEST_PATH for writing does
    pc,              \* main()'s position
    json_files,      \* main()'s local json_files
    all_directories, \* main()'s local all_directories
    manifest,        \* main()'s local manifest
    built,           \* the value build_folder_structure returned
    output,          \* what has been printed by the current run
    result,          \* how main() ended: "0", "1", "raised"; "none" before
    pre,             \* the state of the tree when the current run started
    wrote,           \* the current run opened MANIFEST_PATH for writing
    post,            \* the manifest file as the last finished run left it
    prev,            \* the run before the current one: pre, result, post
    run,             \* number of the current run
    edited           \* the tree was changed since the last run ended

envVars == << os_sep, rootExists, dirs, files, mfile, today, disk >>
runVars == << pc, json_files, all_directories, manifest, built, output, result >>
histVars == << pre, wrote, post, prev, run, edited >>
vars == << envVars, runVars, histVars >>

\* ------------------------------------------------------------------------
\* The content tree and os.walk
\* ------------------------------------------------------------------------

Parent(path) == SubSeq(path, 1, Len(path) - 1)
Name(path) == path[Len(path)]

\* The files os.walk sees: the data files and, when it exists, the manifest.
FilesOnDisk ==
    files \cup (IF mfile.kind = "absent" THEN {} ELSE {<< ManifestName >>})

\* os.walk(directory), top-down: one (root, dirs, files) triple for the
\* root and for every directory under it.
os_walk ==
    { [root  |-> r,
       dirs  |-> {Name(d) : d \in {x \in dirs : Parent(x) = r}},
       files |-> {Name(f) : f \in {x \in FilesOnDisk : Parent(x) = r}}]
      : r \in {<< >>} \cup dirs }

\* str((Path(root) / name).relative_to(directory)).replace('\\', '/'):
\* the parts joined by the platform's separator, then every backslash of
\* the result replaced.
rel_path(root, name) ==
    replace(join(Append(root, name), os_sep), "\\", "/")

\* ------------------------------------------------------------------------
\* Scanner
\* ------------------------------------------------------------------------

\* find_json_files without the test file != 'manifest.json'.
find_json_files_with_manifest ==
    LET kept == UNION { { << w.root, f >> :
                            f \in { x \in w.files : endswith(x, DotJson) } }
                        : w \in os_walk }
        order == SetToSeq(kept)
        json_list == [i \in 1..Len(order) |-> rel_path(order[i][1], order[i][2])]
    IN  sorted(json_list)

find_json_files ==
    LET kept == UNION { { << w.root, f >> :
                            f \in { x \in w.files :
                                      endswith(x, DotJson) /\ x # ManifestName } }
                        : w \in os_walk }
        order == SetToSeq(kept)
        json_list == [i \in 1..Len(order) |-> rel_path(order[i][1], order[i][2])]
    IN  sorted(json_list)

find_all_directories ==
    LET found == UNION { { << w.root, d >> : d \in w.dirs } : w \in os_walk }
        directories == { rel_path(h[1], h[2]) : h \in found }
    IN  sorted(SetToSeq(directories))

\* ------------------------------------------------------------------------
\* Structure builder
\* ------------------------------------------------------------------------

\* key in mapping
HasKey(mapping, key) == \E i \in 1..Len(mapping) : mapping[i][1] = key
KeyIndex(mapping, key) == CHOOSE i \in 1..Len(mapping) : mapping[i][1] = key
\* mapping[key]
Item(mapping, key) == mapping[KeyIndex(mapping, key)][2]

\* The loop "for part in parts: if part not in current: current[part] = {};
\* current = current[part]", as the mapping it leaves behind.
RECURSIVE navigate(_, _)
navigate(current, parts) ==
    IF Len(parts) = 0 THEN current
    ELSE IF HasKey(current, Head(parts))
    THEN [current EXCEPT ![KeyIndex(current, Head(parts))] =
            << Head(parts), navigate(current[KeyIndex(current, Head(parts))][2], Tail(parts)) >>]
    ELSE Append(current, << Head(parts), navigate(<< >>, Tail(parts)) >>)

\* One iteration of the first loop: a directory path.
add_directory(structure, dir_path) ==
    LET parts == split(dir_path, "/")
    IN  IF Len(parts) >= 1
        THEN IF HasKey(structure, parts[1])
             THEN navigate(structure, parts)
             ELSE navigate(Append(structure, << parts[1], << >> >>), parts)
        ELSE structure

\* The second loop's iteration with len(parts) > 2 for len(parts) >= 2.
add_file_folders_deep(structure, file_path) ==
    LET parts == split(file_path, "/")
    IN  IF Len(parts) > 2
        THEN navigate(IF HasKey(structure, parts[1])
                      THEN structure
                      ELSE Append(structure, << parts[1], << >> >>),
                      SubSeq(parts, 1, Len(parts) - 1))
        ELSE structure

\* One iteration of the second loop: a file path.
add_file_folders(structure, file_path) ==
    LET parts == split(file_path, "/")
    IN  IF Len(parts) >= 2
        THEN navigate(IF HasKey(structure, parts[1])
                      THEN structure
                      ELSE Append(structure, << parts[1], << >> >>),
                      SubSeq(parts, 1, Len(parts) - 1))
        ELSE structure

RECURSIVE add_directories(_, _)
add_directories(structure, list) ==
    IF Len(list) = 0 THEN structure
    ELSE add_directories(add_directory(structure, Head(list)), Tail(list))

RECURSIVE add_files(_, _)
add_files(structure, list) ==
    IF Len(list) = 0 THEN structure
    ELSE add_files(add_file_folders(structure, Head(list)), Tail(list))

build_folder_structure(files_arg, directories_arg) ==
    add_files(add_directories(<< >>, directories_arg), files_arg)

\* ------------------------------------------------------------------------
\* Manifest store
\* ------------------------------------------------------------------------

NoValue == [kind |-> "nondict", keys |-> << >>, val |-> [k \in {} |-> << >>]]

Dict(keys, val) == [kind |-> "dict", keys |-> keys, val |-> val]

\* manifest[key] = value on a dict: a new key goes last, an old one keeps
\* its place.
SetItem(m, key, value) ==
    [kind |-> "dict",
     keys |-> IF key \in DOMAIN m.val THEN m.keys ELSE Append(m.keys, key),
     val  |-> [k \in DOMAIN m.val \cup {key} |-> IF k = key THEN value ELSE m.val[k]]]

\* The manifest main() makes when there is no manifest file.
DefaultManifest ==
    Dict(<< "version", "generated", "structure", "files" >>,
         [k \in {"version", "generated", "structure", "files"} |->
            CASE k = "version" -> "1.0.0"
              [] k = "generated" -> today
              [] k = "structure" -> << >>
              [] k = "files" -> << >>])

AbsentFile == [kind |-> "absent", value |-> NoValue]
CorruptFile == [kind |-> "corrupt", value |-> NoValue]
\* json.dump(manifest, f) into a file opened with 'w', read back by
\* json.load: the values used here (strings, lists of strings, objects with
\* string keys) come back as they were written, key order included.
JsonFile(value) == [kind |-> "json", value |-> value]

\* Manifest files found before the first run.
\* A JSON document that is not an object, such as [].
NonObjectFile == JsonFile(NoValue)
\* {}
EmptyObjectFile == JsonFile(Dict(<< >>, [k \in {} |-> << >>]))
\* {"files": ["old.json"], "author": "x", "version": "2.3.1",
\*  "generated": "2020-01-01", "structure": {"old": {}}}
OldManifestFile ==
    JsonFile(Dict(<< "files", "author", "version", "generated", "structure" >>,
                  [k \in {"files", "author", "version", "generated", "structure"} |->
                     CASE k = "files" -> << << "o", "l", "d" >> \o DotJson >>
                       [] k = "author" -> "x"
                       [] k = "version" -> "2.3.1"
                       [] k = "generated" -> "2020-01-01"
                       [] k = "structure" -> << << << "o", "l", "d" >>, << >> >> >>]))

ManifestFiles ==
    {AbsentFile, CorruptFile, NonObjectFile, EmptyObjectFile, OldManifestFile}


\* Opening MANIFEST_PATH with 'w' and dumping: "ok"; "denied", open() raises
\* and the file is untouched; "full", open() truncates the file and the
\* dump raises, leaving a file that does not parse.
DiskStates == {"ok", "denied", "full"}

\* A load that starts from the default manifest whatever the file holds.
json_load_default(file) == DefaultManifest

\* json.load(f) when it returns: the document's value.
json_load(file) == file.value

\* ------------------------------------------------------------------------
\* Reporter
\* ------------------------------------------------------------------------

Event(ev, arg, n) == [ev |-> ev, arg |-> arg, n |-> n]
Line(ev) == Event(ev, << >>, 0)

\* print_structure recursing with indent for indent + 1.
RECURSIVE print_structure_flat(_, _)
print_structure_flat(structure, indent) ==
    IF Len(structure) = 0 THEN << >>
    ELSE LET key == structure[1][1]
             value == structure[1][2]
         IN  << Event("folder", key, indent) >>
             \o (IF Len(value) > 0 THEN print_structure_flat(value, indent) ELSE << >>)
             \o print_structure_flat(Tail(structure), indent)

\* print_structure(structure, indent): one line per key, in the mapping's
\* order, the children of a non-empty mapping right after their parent.
RECURSIVE print_structure(_, _)
print_structure(structure, indent) ==
    IF Len(structure) = 0 THEN << >>
    ELSE LET key == structure[1][1]
             value == structure[1][2]
         IN  << Event("folder", key, indent) >>
             \o (IF Len(value) > 0 THEN print_structure(value, indent + 1) ELSE << >>)
             \o print_structure(Tail(structure), indent)

\* ------------------------------------------------------------------------
\* Content trees of the model
\* ------------------------------------------------------------------------

DirUniverse == { << n_a >>, << n_a, n_s >>, << n_g >>, << n_a_bs_s >> }

FileUniverse ==
    { << n_a_json >>, << n_a, n_b_json >>, << n_a_bs_b_json >>,
      << n_a, ManifestName >>, << n_a, n_s, n_c_json >>, << n_n_txt >> }

HasBackslash(path) ==
    \E i \in 1..Len(path) : \E j \in 1..Len(path[i]) : path[i][j] = "\\"

\* A tree the platform can hold: every entry's parent is there, and where
\* the separator is the backslash no name contains one.
TreeOk(sep, D, F) ==
    /\ \A p \in D \cup F : Len(p) > 1 => Parent(p) \in D
    /\ sep = "\\" => \A p \in D \cup F : ~HasBackslash(p)
    /\ Cardinality(D) + Cardinality(F) <= MaxEntries

Snapshot ==
    [os_sep |-> os_sep, rootExists |-> rootExists, dirs |-> dirs,
     files |-> files, mfile |-> mfile, today |-> today, disk |-> disk]

\* ------------------------------------------------------------------------
\* main()
\* ------------------------------------------------------------------------

Emit(lines) == output' = output \o lines

Init ==
    /\ os_sep \in {"/", "\\"}
    /\ rootExists \in BOOLEAN
    /\ dirs \in SUBSET DirUniverse
    /\ files \in SUBSET FileUniverse
    /\ TreeOk(os_sep, dirs, files)
    /\ mfile \in ManifestFiles
    /\ disk \in DiskStates
    /\ ~rootExists => dirs = {} /\ files = {} /\ mfile = AbsentFile /\ disk = "ok"
    /\ today = "2026-01-01"
    /\ pc = "check_root"
    /\ json_files = << >>
    /\ all_directories = << >>
    /\ manifest = NoValue
    /\ built = << >>
    /\ output = << >>
    /\ result = "none"
    /\ pre = Snapshot
    /\ wrote = FALSE
    /\ post = AbsentFile
    /\ prev = [valid |-> FALSE, pre |-> Snapshot, result |-> "none", post |-> AbsentFile]
    /\ run = 1
    /\ edited = FALSE

\* Lines 94-99: the banner and the content root check.
CheckRoot ==
    /\ pc = "check_root"
    /\ IF ~rootExists
       THEN /\ Emit(<< Line("scanning"), Line("error_root") >>)
            /\ result' = "1"
            /\ post' = mfile
            /\ pc' = "done"
       ELSE /\ Emit(<< Line("scanning") >>)
            /\ pc' = "scan"
            /\ UNCHANGED << result, post >>
    /\ UNCHANGED << envVars, json_files, all_directories, manifest, built,
                    pre, wrote, prev, run, edited >>

\* Lines 101-113: the two scans, the counts and the directory list.
Scan ==
    /\ pc = "scan"
    /\ json_files' = find_json_files
    /\ all_directories' = find_all_directories
    /\ Emit(<< Event("count_dirs", << >>, Len(find_all_directories)),
                Event("count_files", << >>, Len(find_json_files)) >>
             \o (IF Len(find_all_directories) > 0
                 THEN << Line("dirs_header") >>
                      \o [i \in 1..Len(find_all_directories) |->
                            Event("dir", find_all_directories[i], 0)]
                 ELSE << >>)
             \o << Line("blank") >>)
    /\ pc' = "load"
    /\ UNCHANGED << envVars, manifest, built, result, histVars >>

\* A load whose except clause goes on with the default manifest.
Load_SwallowError ==
    /\ pc = "load"
    /\ IF mfile.kind = "json"
       THEN /\ manifest' = json_load(mfile)
            /\ Emit(<< Line("loaded") >>)
       ELSE /\ manifest' = DefaultManifest
            /\ Emit(<< Line("not_found") >>)
    /\ pc' = "update"
    /\ UNCHANGED << envVars, json_files, all_directories, built, result,
                    pre, wrote, post, prev, run, edited >>

\* Lines 115-131: load the manifest file, or make the default manifest.
Load ==
    /\ pc = "load"
    /\ IF mfile.kind # "absent"
       THEN IF mfile.kind = "json"
            THEN /\ manifest' = json_load(mfile)
                 /\ Emit(<< Line("loaded") >>)
                 /\ pc' = "update"
                 /\ UNCHANGED << result, post >>
            ELSE /\ Emit(<< Line("error_read") >>)
                 /\ result' = "1"
                 /\ post' = mfile
                 /\ pc' = "done"
                 /\ UNCHANGED manifest
       ELSE /\ manifest' = DefaultManifest
            /\ Emit(<< Line("not_found") >>)
            /\ pc' = "update"
            /\ UNCHANGED << result, post >>
    /\ UNCHANGED << envVars, json_files, all_directories, built,
                    pre, wrote, prev, run, edited >>

\* Lines 133-139: files, generated and structure are assigned. The first
\* assignment raises TypeError when the loaded document is not an object.
Update ==
    /\ pc = "update"
    /\ IF manifest.kind # "dict"
       THEN /\ result' = "raised"
            /\ post' = mfile
            /\ pc' = "done"
            /\ UNCHANGED << manifest, built, output >>
       ELSE /\ built' = build_folder_structure(json_files, all_directories)
            /\ manifest' = SetItem(SetItem(SetItem(manifest, "files", json_files),
                                           "generated", today),
                                   "structure", built')
            /\ Emit(<< Line("building") >>)
            /\ pc' = "save"
            /\ UNCHANGED << result, post >>
    /\ UNCHANGED << envVars, json_files, all_directories,
                    pre, wrote, prev, run, edited >>

\* Lines 141-148: the manifest file is opened for writing and dumped.
Save ==
    /\ pc = "save"
    /\ wrote' = TRUE
    /\ IF disk = "ok"
       THEN /\ mfile' = JsonFile(manifest)
            /\ Emit(<< Line("success") >>)
            /\ pc' = "report"
            /\ UNCHANGED << result, post >>
       ELSE /\ mfile' = IF disk = "full" THEN CorruptFile ELSE mfile
            /\ Emit(<< Line("error_write") >>)
            /\ result' = "1"
            /\ post' = mfile'
            /\ pc' = "done"
    /\ UNCHANGED << os_sep, rootExists, dirs, files, today, disk,
                    json_files, all_directories, manifest, built,
                    pre, prev, run, edited >>

\* Lines 150-174: the summary. manifest["version"] raises KeyError when the
\* loaded manifest had no such key.
Report ==
    /\ pc = "report"
    /\ IF "version" \notin DOMAIN manifest.val
       THEN /\ Emit(<< Line("summary_header") >>)
            /\ result' = "raised"
       ELSE /\ Emit(<< Line("summary_header"),
                        Event("version", << manifest.val["version"] >>, 0),
                        Event("generated", << manifest.val["generated"] >>, 0),
                        Event("files_count", << >>, Len(manifest.val["files"])) >>
                     \o (IF Len(manifest.val["files"]) > 0
                         THEN << Line("files_header") >>
                              \o [i \in 1..Len(manifest.val["files"]) |->
                                    Event("file", manifest.val["files"][i], 0)]
                              \o << Line("structure_header") >>
                              \o print_structure(manifest.val["structure"], 0)
                         ELSE << Line("no_files_warning"), Line("no_files_hint") >>)
                     \o << Line("done") >>)
            /\ result' = "0"
    /\ post' = mfile
    /\ pc' = "done"
    /\ UNCHANGED << envVars, json_files, all_directories, manifest, built,
                    pre, wrote, prev, run, edited >>

\* ------------------------------------------------------------------------
\* Between two runs: one change to the tree, the date or the disk
\* ------------------------------------------------------------------------

CanEdit == pc = "done" /\ run < MaxRuns /\ ~edited

Edited == edited' = TRUE /\ UNCHANGED << runVars, pre, wrote, post, prev, run >>

AddDirectory ==
    /\ CanEdit /\ rootExists
    /\ \E d \in DirUniverse \ dirs :
          /\ TreeOk(os_sep, dirs \cup {d}, files)
          /\ dirs' = dirs \cup {d}
    /\ Edited
    /\ UNCHANGED << os_sep, rootExists, files, mfile, today, disk >>

AddFile ==
    /\ CanEdit /\ rootExists
    /\ \E f \in FileUniverse \ files :
          /\ TreeOk(os_sep, dirs, files \cup {f})
          /\ files' = files \cup {f}
    /\ Edited
    /\ UNCHANGED << os_sep, rootExists, dirs, mfile, today, disk >>

RemoveEntry ==
    /\ CanEdit
    /\ \/ \E d \in dirs :
             /\ TreeOk(os_sep, dirs \ {d}, files)
             /\ dirs' = dirs \ {d}
             /\ UNCHANGED files
       \/ \E f \in files :
             /\ files' = files \ {f}
             /\ UNCHANGED dirs
    /\ Edited
    /\ UNCHANGED << os_sep, rootExists, mfile, today, disk >>

ReplaceManifest ==
    /\ CanEdit /\ rootExists
    /\ \E m \in ManifestFiles : m # mfile /\ mfile' = m
    /\ Edited
    /\ UNCHANGED << os_sep, rootExists, dirs, files, today, disk >>

NextDay ==
    /\ CanEdit
    /\ today = "2026-01-01"
    /\ today' = "2026-01-02"
    /\ Edited
    /\ UNCHANGED << os_sep, rootExists, dirs, files, mfile, disk >>

ChangeDisk ==
    /\ CanEdit /\ rootExists
    /\ \E d \in DiskStates : d # disk /\ disk' = d
    /\ Edited
    /\ UNCHANGED << os_sep, rootExists, dirs, files, mfile, today >>

\* main() is started again.
StartRun ==
    /\ pc = "done"
    /\ run < MaxRuns
    /\ run' = run + 1
    /\ prev' = [valid |-> TRUE, pre |-> pre, result |-> result, post |-> post]
    /\ pre' = Snapshot
    /\ pc' = "check_root"
    /\ json_files' = << >>
    /\ all_directories' = << >>
    /\ manifest' = NoValue
    /\ built' = << >>
    /\ output' = << >>
    /\ result' = "none"
    /\ wrote' = FALSE
    /\ edited' = FALSE
    /\ UNCHANGED << envVars, post >>

Next ==
    \/ CheckRoot \/ Scan \/ Load \/ Update \/ Save \/ Report
    \/ AddDirectory \/ AddFile \/ RemoveEntry \/ ReplaceManifest
    \/ NextDay \/ ChangeDisk
    \/ StartRun

Spec == Init /\ [][Next]_vars

\* ------------------------------------------------------------------------
\* build_folder_structure on arbitrary inputs
\* ------------------------------------------------------------------------

SeqsUpTo(S, n) == UNION { [1..k -> S] : k \in 0..n }

n_h == << "h" >>
n_e == << "e" >>
n_d_json == << "d" >> \o DotJson
n_assets == << "a", "s", "s", "e", "t", "s" >>
n_sub == << "s", "u", "b" >>
n_graphs == << "g", "r", "a", "p", "h", "s" >>
n_empty == << "e", "m", "p", "t", "y" >>

DirStrings ==
    { join(<< n_a >>, "/"), join(<< n_a, n_s >>, "/"), join(<< n_g >>, "/"),
      join(<< n_g, n_e, n_s >>, "/") }

FileStrings ==
    { join(<< n_a_json >>, "/"), join(<< n_a, n_b_json >>, "/"),
      join(<< n_a, n_s, n_c_json >>, "/"), join(<< n_h, n_d_json >>, "/"),
      join(<< n_g, n_e, n_d_json >>, "/") }

Scenario1Files ==
    << join(<< n_assets, n_a_json >>, "/"), join(<< n_assets, n_sub, n_b_json >>, "/") >>
Scenario1Dirs ==
    << join(<< n_assets >>, "/"), join(<< n_assets, n_sub >>, "/"),
       join(<< n_graphs >>, "/"), join(<< n_graphs, n_empty >>, "/") >>
\* {"assets": {"sub": {}}, "graphs": {"empty": {}}}
Scenario1Structure ==
    << << n_assets, << << n_sub, << >> >> >> >>,
       << n_graphs, << << n_empty, << >> >> >> >> >>

InitBuild ==
    /\ \/ /\ json_files \in SeqsUpTo(FileStrings, MaxLen)
          /\ all_directories \in SeqsUpTo(DirStrings, MaxLen)
       \/ /\ json_files = Scenario1Files
          /\ all_directories = Scenario1Dirs
    /\ pc = "build"
    /\ built = << >>
    /\ os_sep = "/"
    /\ rootExists = TRUE
    /\ dirs = {}
    /\ files = {}
    /\ mfile = AbsentFile
    /\ disk = "ok"
    /\ today = "2026-01-01"
    /\ manifest = NoValue
    /\ output = << >>
    /\ result = "none"
    /\ pre = Snapshot
    /\ wrote = FALSE
    /\ post = AbsentFile
    /\ prev = [valid |-> FALSE, pre |-> Snapshot, result |-> "none", post |-> AbsentFile]
    /\ run = 1
    /\ edited = FALSE

\* Line 139's call, on its own.
BuildCall ==
    /\ pc = "build"
    /\ built' = build_folder_structure(json_files, all_directories)
    /\ pc' = "built"
    /\ UNCHANGED << envVars, json_files, all_directories, manifest, output,
                    result, histVars >>

NextBuild == BuildCall

SpecBuild == InitBuild /\ [][NextBuild]_vars

\* ------------------------------------------------------------------------
\* Vocabulary of the properties
\* ------------------------------------------------------------------------

\* Every key path of a mapping, as a set of sequences of keys.
RECURSIVE KeyPaths(_)
KeyPaths(mapping) ==
    UNION { {<< mapping[i][1] >>}
            \cup { << mapping[i][1] >> \o q : q \in KeyPaths(mapping[i][2]) }
            : i \in 1..Len(mapping) }

\* parts can be followed key by key from the top level of the mapping.
RECURSIVE Traversable(_, _)
Traversable(mapping, parts) ==
    \/ Len(parts) = 0
    \/ /\ HasKey(mapping, Head(parts))
       /\ Traversable(Item(mapping, Head(parts)), Tail(parts))

\* The mapping found at the end of a traversable key path.
RECURSIVE Lookup(_, _)
Lookup(mapping, parts) ==
    IF Len(parts) = 0 THEN mapping
    ELSE Lookup(Item(mapping, Head(parts)), Tail(parts))

IsPrefix(p, q) == Len(p) <= Len(q) /\ SubSeq(q, 1, Len(p)) = p

StrictlyAscending(list) ==
    \A i \in 1..(Len(list) - 1) : StrLess(list[i], list[i + 1])

\* The '/'-separated root-relative path of an entry of the tree.
SlashPath(path) == join(path, "/")

\* The data files of a tree: the files named *.json that are not named as
\* the manifest is.
DataFiles(F) ==
    { p \in F : endswith(Name(p), DotJson) /\ Name(p) # ManifestName }

Scanned == pc \in {"load", "update", "save", "report", "done"} /\ pre.rootExists
Wrote == wrote /\ pre.disk = "ok"

\* The directory chains the inputs of build_folder_structure name.
ImpliedChains ==
    { split(all_directories[i], "/") : i \in 1..Len(all_directories) }
    \cup { SubSeq(split(json_files[i], "/"), 1, Len(split(json_files[i], "/")) - 1)
           : i \in { k \in 1..Len(json_files) : Len(split(json_files[k], "/")) >= 2 } }

\* The events of one kind, in the order printed.
RECURSIVE Only(_, _)
Only(events, kinds) ==
    IF Len(events) = 0 THEN << >>
    ELSE (IF Head(events).ev \in kinds THEN << Head(events) >> ELSE << >>)
         \o Only(Tail(events), kinds)

\* The position of an event in the order of the report.
Stage(ev) ==
    CASE ev \in {"scanning"} -> 0
      [] ev \in {"count_dirs", "count_files"} -> 1
      [] ev \in {"dirs_header", "dir"} -> 2
      [] ev \in {"blank"} -> 3
      [] ev \in {"loaded", "not_found", "error_read", "error_root"} -> 4
      [] ev \in {"building", "success", "error_write"} -> 5
      [] ev \in {"summary_header", "version", "generated", "files_count"} -> 6
      [] ev \in {"files_header", "file", "no_files_warning", "no_files_hint"} -> 7
      [] ev \in {"structure_header", "folder"} -> 8
      [] ev \in {"done"} -> 9

InOrder(events) ==
    \A i \in 1..Len(events) : \A j \in i..Len(events) :
        Stage(events[i].ev) <= Stage(events[j].ev)

\* The pre-order rendering of a mapping: every key on a line of its own at
\* its nesting depth, a key's descendants before its next sibling.
RECURSIVE PreOrder(_, _)
PreOrder(mapping, depth) ==
    IF Len(mapping) = 0 THEN << >>
    ELSE << Event("folder", mapping[1][1], depth) >>
         \o PreOrder(mapping[1][2], depth + 1)
         \o PreOrder(Tail(mapping), depth)

\* ------------------------------------------------------------------------
\* Properties
\* ------------------------------------------------------------------------

\* The run has ended and nothing has been changed since.
RunEnded == pc = "done" /\ ~edited

\* The write of the current run failed.
WriteFailed == wrote /\ pre.disk # "ok"

\* C1: every run ends by returning a status: 1 if the content root is
\* missing, if the existing manifest file does not parse or if the write
\* fails, 0 in every other case; no run ends in any other way.
C1_ReturnsStatus ==
    RunEnded =>
        /\ result \in {"0", "1"}
        /\ result = "1" <=>
              \/ ~pre.rootExists
              \/ pre.mfile.kind = "corrupt"
              \/ WriteFailed

\* C2: when the manifest file existed and parsed, the manifest a run writes
\* has every field of the old one other than generated, structure and files
\* unchanged and in the old order, version included (and a missing version
\* stays missing); it has version "1.0.0" by default only when there was no
\* manifest file.
C2_OtherFieldsKept ==
    ((pc = "report" \/ RunEnded) /\ Wrote) =>
        /\ mfile.kind = "json"
        /\ mfile.value.kind = "dict"
        /\ IF pre.mfile.kind = "absent"
           THEN /\ mfile.value.val["version"] = "1.0.0"
                /\ DOMAIN mfile.value.val = {"version", "generated", "structure", "files"}
           ELSE LET old == pre.mfile.value
                    new == mfile.value
                    Updated == {"generated", "structure", "files"}
                    Rest(m) == SelectSeq(m.keys, LAMBDA k : k \notin Updated)
                IN  /\ pre.mfile.kind = "json"
                    /\ DOMAIN new.val = DOMAIN old.val \cup Updated
                    /\ \A k \in DOMAIN old.val \ Updated : new.val[k] = old.val[k]
                    /\ Rest(new) = Rest(old)
                    /\ "version" \in DOMAIN old.val <=> "version" \in DOMAIN new.val

C2_Witness ==
    /\ RunEnded /\ Wrote
    /\ pre.mfile = OldManifestFile
    /\ mfile.value.val["version"] = "2.3.1"
    /\ mfile.value.val["files"] # pre.mfile.value.val["files"]

\* C3: when the content root is missing or the manifest file does not
\* parse, the run returns 1, never opens the manifest for writing and
\* leaves the manifest file as it was.
C3_FailsBeforeWrite ==
    (RunEnded /\ (~pre.rootExists \/ pre.mfile.kind = "corrupt")) =>
        /\ result = "1"
        /\ ~wrote
        /\ mfile = pre.mfile

C3_Witness ==
    /\ RunEnded
    /\ pre.rootExists
    /\ pre.mfile.kind = "corrupt"
    /\ pre.disk = "ok"
    /\ result = "1"

\* C4: when the content root exists and holds no .json data file, with the
\* manifest file absent or parseable, the run returns 0 and writes a
\* manifest whose files is [] and whose structure holds exactly the
\* directories under the root.
C4_NoDataFiles ==
    (/\ RunEnded
     /\ pre.rootExists
     /\ DataFiles(pre.files) = {}
     /\ pre.mfile.kind \in {"absent", "json"}
     /\ pre.disk = "ok") =>
        /\ result = "0"
        /\ mfile.kind = "json"
        /\ mfile.value.val["files"] = << >>
        /\ KeyPaths(mfile.value.val["structure"]) = pre.dirs

\* C5: find_json_files returns exactly the '/'-separated root-relative path
\* of every file named *.json, the manifest excepted, in strictly ascending
\* order; never the manifest's own name, never a path starting with '/'.
C5_JsonFilesExact ==
    Scanned =>
        /\ Range(json_files) = { SlashPath(p) : p \in DataFiles(pre.files) }
        /\ Len(json_files) = Cardinality(DataFiles(pre.files))
        /\ StrictlyAscending(json_files)
        /\ \A i \in 1..Len(json_files) :
              /\ json_files[i] # ManifestName
              /\ json_files[i][1] # "/"

\* C6: find_all_directories returns, ascending and each once, the
\* root-relative path of every directory under the root, the empty ones
\* included, and never the root.
C6_DirectoriesExact ==
    Scanned =>
        /\ Range(all_directories) = { SlashPath(d) : d \in pre.dirs }
        /\ Len(all_directories) = Cardinality(pre.dirs)
        /\ StrictlyAscending(all_directories)
        /\ \A i \in 1..Len(all_directories) : Len(all_directories[i]) > 0

\* C7: the mapping build_folder_structure returns holds every directory
\* path of directories, and the parent chain of every file path of two or
\* more segments, as a key path from the top level; a directory with no
\* child directory is an empty mapping; the tree assets/a.json,
\* assets/sub/b.json, graphs/empty gives
\* {"assets": {"sub": {}}, "graphs": {"empty": {}}}.
C7_StructureHoldsChains ==
    pc = "built" =>
        /\ \A i \in 1..Len(all_directories) :
              Traversable(built, split(all_directories[i], "/"))
        /\ \A i \in 1..Len(json_files) :
              LET parts == split(json_files[i], "/")
              IN  Len(parts) >= 2 =>
                     Traversable(built, SubSeq(parts, 1, Len(parts) - 1))
        /\ \A c \in ImpliedChains :
              (\A q \in ImpliedChains : IsPrefix(c, q) => q = c) =>
                 (Traversable(built, c) /\ Lookup(built, c) = << >>)
        /\ (json_files = Scenario1Files /\ all_directories = Scenario1Dirs) =>
              built = Scenario1Structure

C7_Witness ==
    /\ pc = "built"
    /\ \E i \in 1..Len(json_files) :
          LET parts == split(json_files[i], "/")
          IN  /\ Len(parts) >= 2
              /\ \A j \in 1..Len(all_directories) :
                    ~IsPrefix(<< parts[1] >>, split(all_directories[j], "/"))
              /\ Traversable(built, SubSeq(parts, 1, Len(parts) - 1))
    /\ Len(all_directories) > 0

\* C8: a data file directly under the content root adds no key to the
\* structure, and its path is an element of files in the written manifest.
C8_RootFileAddsNoKey ==
    (RunEnded /\ result = "0") =>
        \A p \in DataFiles(pre.files) :
            Len(p) = 1 =>
               /\ SlashPath(p) \in Range(mfile.value.val["files"])
               /\ built = build_folder_structure(
                             SelectSeq(json_files,
                                       LAMBDA f : f # rel_path(<< >>, p[1])),
                             all_directories)

\* What a run that returns 0 prints before the file list: the counts, the
\* directories, the blank line, the load status and the summary.
ReportHead ==
    /\ Only(output, {"count_dirs", "count_files"})
          = << Event("count_dirs", << >>, Len(all_directories)),
               Event("count_files", << >>, Len(json_files)) >>
    /\ Only(output, {"dir"})
          = [i \in 1..Len(all_directories) |-> Event("dir", all_directories[i], 0)]
    /\ Only(output, {"blank"}) = << Line("blank") >>
    /\ Only(output, {"loaded", "not_found"})
          = << Line(IF pre.mfile.kind = "absent" THEN "not_found" ELSE "loaded") >>
    /\ Only(output, {"version", "generated", "files_count"})
          = << Event("version", << manifest.val["version"] >>, 0),
               Event("generated", << today >>, 0),
               Event("files_count", << >>, Len(json_files)) >>

FileList ==
    [i \in 1..Len(json_files) |-> Event("file", json_files[i], 0)]

C9_WitnessNoFiles ==
    /\ RunEnded /\ result = "0"
    /\ Len(json_files) = 0
    /\ Len(manifest.val["structure"]) > 0
    /\ Only(output, {"folder"}) = << >>

\* The current run started from what the previous run left, with nothing
\* changed but the manifest file that run wrote.
Rerun ==
    /\ prev.valid
    /\ prev.result = "0"
    /\ [pre EXCEPT !.mfile = AbsentFile] = [prev.pre EXCEPT !.mfile = AbsentFile]
    /\ pre.mfile = prev.post

\* C10: a run that follows a successful run on the same date, with nothing
\* changed but the manifest file, returns 0 and writes the same manifest;
\* the manifest file is never in files.
C10_RerunIdempotent ==
    /\ (RunEnded /\ Rerun) => (result = "0" /\ mfile = prev.post)
    /\ Scanned => \A i \in 1..Len(json_files) : json_files[i] # ManifestName

C10_Witness ==
    /\ RunEnded /\ Rerun
    /\ result = "0"
    /\ prev.pre.mfile.kind = "absent"
    /\ Len(mfile.value.val["files"]) > 1
    /\ Len(mfile.value.val["structure"]) > 0

====
